---- MODULE Spec2Model ----
(***************************************************************************)
(* health365: the patients router (Patient CRUD, doctor-patient            *)
(* assignment, medical records) and the WebSocket notification registry.   *)
(*                                                                         *)
(* Every handler is a coroutine.  A request is a record in the bag `reqs`; *)
(* its `pc` names the await it is suspended at, and one action runs the    *)
(* awaited store call together with the code that follows it up to the     *)
(* next await (asyncio runs that stretch without interleaving).            *)
(***************************************************************************)
EXTENDS Bags, FiniteSets, Integers, Sequences, TLC

\* ------------------------------------------------------------------ bounds
MaxPatients == 2      \* Patient rows ever created
MaxLinks == 3         \* PatientDoctor rows ever created
MaxRecords == 1       \* MedicalRecord rows ever created
MaxInFlight == 2      \* requests being served at once
MaxConns == 2         \* WebSocket connection attempts

\* ------------------------------------------------------- program constants
HTTP_200 == 200
HTTP_400 == 400
HTTP_403 == 403
HTTP_404 == 404
HTTP_500 == 500

\* The User table: written only by the users router, fixed here.
Role == (1 :> "DOCTOR" @@ 2 :> "PATIENT")
UserIds == DOMAIN Role
Email(u) == <<"email", u>>

PatientIds == 1 .. MaxPatients
RecordIds == 1 .. MaxRecords
Conns == 1 .. MaxConns

\* Gender enum member names, and str.strip().lower() on the strings used.
Gender == {"MALE", "FEMALE"}
StripLower(s) ==
    CASE s \in {"Male", "MALE", " male "} -> "male"
      [] s \in {"Female", "FEMALE"} -> "female"
      [] OTHER -> "alien"

PatientFields == {"name", "gender"}
RecordFields == {"diagnosis", "treatment"}

\* Request bodies.  dict(exclude_unset=True) is the function on the fields set.
NewPatients == {[name |-> "v0", gender |-> g] : g \in {"Male", "Alien"}}
PatientDelta(F) == [k \in F |-> IF k = "gender" THEN "Female" ELSE "v1"]
PatientUpdates == {PatientDelta(F) : F \in SUBSET PatientFields}
NewRecords == {[diagnosis |-> "v0", treatment |-> "v0"]}
RecordDelta(F) == [k \in F |-> "v1"]
RecordUpdates == {RecordDelta(F) : F \in SUBSET RecordFields}

\* Tokens a client may present in the sec-websocket-protocol header.
NoToken == [kind |-> "none", id |-> 0]
BadToken == [kind |-> "bad", id |-> 0]
TokenIds == 1 .. (Cardinality(UserIds) + 1)
Tokens == {NoToken, BadToken} \cup {[kind |-> "jwt", id |-> i] : i \in TokenIds}

VARIABLES
    patients,       \* Patient rows: id -> fields
    patient_seq,    \* next Patient id
    links,          \* PatientDoctor rows: set of [id, patient, doctor]
    link_seq,       \* next PatientDoctor id
    records,        \* MedicalRecord rows: id -> [patient, doctor, data]
    record_seq,     \* next MedicalRecord id
    user_sockets,   \* the registry: user id -> connection
    sockets,        \* connection -> "idle" | "lookup" | "rejected" (closed by the endpoint)
                    \*   | "accepting" | "open" | "closed" (the client went away)
    lookup,         \* connection -> user id its verified token named (while in "lookup")
    reqs,           \* bag of requests in flight or answered
    revoked,        \* history: pairs unassigned with success, not assigned with success since
    granted         \* history: pair -> number of assign calls answered with success

store == <<patients, patient_seq, links, link_seq, records, record_seq>>
registry == <<user_sockets, sockets, lookup>>
vars == <<patients, patient_seq, links, link_seq, records, record_seq,
          user_sockets, sockets, lookup, reqs, revoked, granted>>
history == <<revoked, granted>>

Init ==
    /\ patients = <<>>
    /\ patient_seq = 1
    /\ links = {}
    /\ link_seq = 1
    /\ records = <<>>
    /\ record_seq = 1
    /\ user_sockets = <<>>
    /\ sockets = [c \in Conns |-> "idle"]
    /\ lookup = [c \in Conns |-> 0]
    /\ reqs = EmptyBag
    /\ revoked = {}
    /\ granted = [pr \in PatientIds \X UserIds |-> 0]

\* ---------------------------------------------------------------- requests
NewReq(op, pc, p, uid, rid, req) ==
    [op |-> op, pc |-> pc, p |-> p, uid |-> uid, rid |-> rid, req |-> req,
     row |-> 0, status |-> 0, body |-> <<>>, sent |-> <<>>, since |-> -1]

Respond(r, status, body) ==
    [r EXCEPT !.pc = "done", !.status = status, !.body = body,
              !.req = <<>>, !.row = 0, !.since = -1]

Accept(r) == reqs (+) SetToBag({r})
Swap(r, r2) == (reqs (-) SetToBag({r})) (+) SetToBag({r2})
At(op, pc) == {r \in DOMAIN reqs : r.op = op /\ r.pc = pc}
Pending(op) ==
    BagCardinality([r \in {x \in DOMAIN reqs : x.op = op /\ x.pc # "done"} |-> reqs[r]])
CanAccept == BagCardinality(reqs) < MaxInFlight

\* --------------------------------------------------------------- ORM calls
\* User.get(id=.., role=..): the row, or DoesNotExist.
UserGet(id, role) == id \in UserIds /\ Role[id] = role
\* Patient.get(id=..)
PatientGet(id) == id \in DOMAIN patients
\* Faulty variant: the filter with the patient left out
PatientDoctorFilter_AnyPatient(p, d) == {l \in links : l.doctor = d}
\* PatientDoctor.filter(patient=.., doctor_id=..)
PatientDoctorFilter(p, d) == {l \in links : l.patient = p /\ l.doctor = d}
\* PatientDoctor.get(..): one row, DoesNotExist, or MultipleObjectsReturned.
PatientDoctorGet(p, d) ==
    LET m == PatientDoctorFilter(p, d)
    IN  IF m = {} THEN "DoesNotExist"
        ELSE IF Cardinality(m) = 1 THEN "ok" ELSE "MultipleObjectsReturned"
\* PatientDoctor.create(..): a plain insert; the table has no uniqueness constraint
\* on (patient, doctor).
PatientDoctorCreate(rows, row) == rows \cup {row}
\* MedicalRecord.get(id=.., patient=..)
MedicalRecordGet(id, p) == id \in DOMAIN records /\ records[id].patient = p
\* Model.update_from_dict(data): sets the fields on the in-memory object, returns it.
UpdateFromDict(obj, data) ==
    [k \in DOMAIN obj |-> IF k \in DOMAIN data THEN data[k] ELSE obj[k]]
\* What deleting a Patient row does to the rows that reference it.
PatientCascade(rows, p) == rows

\* ------------------------------------------------------- Patient handlers
\* POST /patients: the gender check runs before the first await.
create_patient_Call(req) ==
    /\ CanAccept
    /\ patient_seq + Pending("create_patient") <= MaxPatients
    /\ reqs' = IF StripLower(req.gender) \notin {StripLower(m) : m \in Gender}
               THEN Accept(Respond(NewReq("create_patient", "call", 0, 0, 0, req),
                                   HTTP_400, <<>>))
               ELSE Accept(NewReq("create_patient", "create", 0, 0, 0, req))
    /\ UNCHANGED <<store, registry, history>>

create_patient_Create(r) ==
    /\ r \in At("create_patient", "create")
    /\ patients' = (patient_seq :> r.req) @@ patients
    /\ patient_seq' = patient_seq + 1
    /\ reqs' = Swap(r, Respond(r, HTTP_200, <<>>))
    /\ UNCHANGED <<links, link_seq, records, record_seq, registry, history>>

\* PUT /patients/{patient_id}
update_patient_Call(p, req) ==
    /\ CanAccept
    /\ reqs' = Accept(NewReq("update_patient", "get", p, 0, 0, req))
    /\ UNCHANGED <<store, registry, history>>

\* Patient.get, then update_from_dict on the fetched object and its serialisation.
\* Nothing is written back: the handler never calls save().
update_patient_Get(r) ==
    /\ r \in At("update_patient", "get")
    /\ reqs' = IF PatientGet(r.p)
               THEN Swap(r, Respond(r, HTTP_200, UpdateFromDict(patients[r.p], r.req)))
               ELSE Swap(r, Respond(r, HTTP_404, <<>>))
    /\ UNCHANGED <<store, registry, history>>

\* DELETE /patients/{patient_id}
delete_patient_Call(p) ==
    /\ CanAccept
    /\ reqs' = Accept(NewReq("delete_patient", "get", p, 0, 0, <<>>))
    /\ UNCHANGED <<store, registry, history>>

delete_patient_Get(r) ==
    /\ r \in At("delete_patient", "get")
    /\ reqs' = IF PatientGet(r.p)
               THEN Swap(r, [r EXCEPT !.pc = "delete"])
               ELSE Swap(r, Respond(r, HTTP_404, <<>>))
    /\ UNCHANGED <<store, registry, history>>

delete_patient_Delete(r) ==
    /\ r \in At("delete_patient", "delete")
    /\ patients' = [i \in DOMAIN patients \ {r.p} |-> patients[i]]
    /\ links' = PatientCascade(links, r.p)
    /\ records' = PatientCascade(records, r.p)
    /\ reqs' = Swap(r, Respond(r, HTTP_200, <<>>))
    /\ UNCHANGED <<patient_seq, link_seq, record_seq, registry, history>>

\* ------------------------------------------------------------ notification
\* WebSocket.send_text on a connection: a frame is delivered on an accepted, still
\* connected socket; on any other the send raises.
SendText(c, message) ==
    IF sockets[c] = "open"
    THEN [raised |-> FALSE, sent |-> <<[conn |-> c, text |-> message]>>]
    ELSE [raised |-> TRUE, sent |-> <<>>]

\* Faulty variant: the notification pushed to whichever socket is registered
send_notification_to_anyone(user_id, message) ==
    IF DOMAIN user_sockets # {}
    THEN SendText(user_sockets[CHOOSE u \in DOMAIN user_sockets : TRUE], message)
    ELSE [raised |-> FALSE, sent |-> <<>>]

send_notification_to_user(user_id, message) ==
    IF user_id \in DOMAIN user_sockets
    THEN SendText(user_sockets[user_id], message)
    ELSE [raised |-> FALSE, sent |-> <<>>]

\* ----------------------------------------------------- assignment handlers
\* `except Exception` around the whole handler body: whatever was raised inside,
\* the HTTPException(400) included, leaves as a 404.
AssignExcept(raised) == HTTP_404

\* POST /patients/{patient_id}/assign-doctor/{doctor_id}
assign_doctor_to_patient_Call(p, d) ==
    /\ CanAccept
    /\ link_seq + Pending("assign") <= MaxLinks
    /\ reqs' = Accept(NewReq("assign", "getPatient", p, d, 0, <<>>))
    /\ UNCHANGED <<store, registry, history>>

assign_doctor_to_patient_GetPatient(r) ==
    /\ r \in At("assign", "getPatient")
    /\ reqs' = IF PatientGet(r.p)
               THEN Swap(r, [r EXCEPT !.pc = "filter"])
               ELSE Swap(r, Respond(r, AssignExcept("DoesNotExist"), <<>>))
    /\ UNCHANGED <<store, registry, history>>

assign_doctor_to_patient_Filter(r) ==
    /\ r \in At("assign", "filter")
    /\ reqs' = IF PatientDoctorFilter(r.p, r.uid) # {}
               THEN Swap(r, Respond(r, AssignExcept(HTTP_400), <<>>))
               ELSE Swap(r, [r EXCEPT !.pc = "getDoctor"])
    /\ UNCHANGED <<store, registry, history>>

assign_doctor_to_patient_GetDoctor(r) ==
    /\ r \in At("assign", "getDoctor")
    /\ reqs' = IF UserGet(r.uid, "DOCTOR")
               THEN Swap(r, [r EXCEPT !.pc = "create"])
               ELSE Swap(r, Respond(r, AssignExcept("DoesNotExist"), <<>>))
    /\ UNCHANGED <<store, registry, history>>

\* PatientDoctor.create, then the notification, then the response.
assign_doctor_to_patient_Create(r) ==
    /\ r \in At("assign", "create")
    /\ links' = PatientDoctorCreate(links, [id |-> link_seq, patient |-> r.p, doctor |-> r.uid])
    /\ link_seq' = link_seq + 1
    /\ LET n == send_notification_to_user(r.uid,
                    <<"New patient assigned from: ", Email(r.uid)>>)
       IN  IF n.raised
           THEN /\ reqs' = Swap(r, Respond(r, AssignExcept("send"), <<>>))
                /\ UNCHANGED history
           ELSE /\ reqs' = Swap(r, [Respond(r, HTTP_200, <<>>) EXCEPT !.sent = n.sent])
                /\ revoked' = revoked \ {<<r.p, r.uid>>}
                /\ granted' = [granted EXCEPT ![<<r.p, r.uid>>] = @ + 1]
    /\ UNCHANGED <<patients, patient_seq, records, record_seq, registry>>

\* DELETE /patients/{patient_id}/unassign-doctor/{doctor_id}
unassign_doctor_from_patient_Call(p, d) ==
    /\ CanAccept
    /\ reqs' = Accept(NewReq("unassign", "get", p, d, 0, <<>>))
    /\ UNCHANGED <<store, registry, history>>

unassign_doctor_from_patient_Get(r) ==
    /\ r \in At("unassign", "get")
    /\ LET got == PatientDoctorGet(r.p, r.uid)
       IN  reqs' = CASE got = "DoesNotExist" -> Swap(r, Respond(r, HTTP_404, <<>>))
                     [] got = "MultipleObjectsReturned" ->
                            Swap(r, Respond(r, HTTP_500, <<>>))
                     [] OTHER ->
                            Swap(r, [r EXCEPT !.pc = "delete",
                                !.row = (CHOOSE l \in PatientDoctorFilter(r.p, r.uid) : TRUE).id])
    /\ UNCHANGED <<store, registry, history>>

\* assignment.delete(): DELETE by primary key of the fetched row.
unassign_doctor_from_patient_Delete(r) ==
    /\ r \in At("unassign", "delete")
    /\ links' = {l \in links : l.id # r.row}
    /\ reqs' = Swap(r, Respond(r, HTTP_200, <<>>))
    /\ revoked' = revoked \cup {<<r.p, r.uid>>}
    /\ granted' = granted
    /\ UNCHANGED <<patients, patient_seq, link_seq, records, record_seq, registry>>

\* ------------------------------------------------- medical-record handlers
MedOps == {"list", "create_record", "update_record", "delete_record"}

\* A medical-record request of user u on patient p, as it is accepted.
MedReq(op, u, p, rid, req) ==
    [NewReq(op, "getDoctor", p, u, rid, req)
        EXCEPT !.since = IF <<p, u>> \in revoked THEN granted[<<p, u>>] ELSE -1]

\* GET /patients/{patient_id}/medical-information, behind has_permission(DOCTOR).
get_patient_medical_information_Call(u, p) ==
    /\ CanAccept
    /\ reqs' = IF Role[u] = "DOCTOR"
               THEN Accept(MedReq("list", u, p, 0, <<>>))
               ELSE Accept(Respond(MedReq("list", u, p, 0, <<>>), HTTP_403, <<>>))
    /\ UNCHANGED <<store, registry, history>>

\* POST /patients/{patient_id}/medical-information
create_medical_record_Call(u, p, req) ==
    /\ CanAccept
    /\ record_seq + Pending("create_record") <= MaxRecords
    /\ reqs' = Accept(MedReq("create_record", u, p, 0, req))
    /\ UNCHANGED <<store, registry, history>>

\* PUT /patients/{patient_id}/medical-information/{record_id}
update_medical_record_Call(u, p, rid, req) ==
    /\ CanAccept
    /\ reqs' = Accept(MedReq("update_record", u, p, rid, req))
    /\ UNCHANGED <<store, registry, history>>

\* DELETE /patients/{patient_id}/medical-information/{record_id}
delete_medical_record_Call(u, p, rid) ==
    /\ CanAccept
    /\ reqs' = Accept(MedReq("delete_record", u, p, rid, <<>>))
    /\ UNCHANGED <<store, registry, history>>

\* The access check, the same three awaits in the four handlers.
AfterCheck(op) ==
    CASE op = "list" -> "filter"
      [] op = "create_record" -> "create"
      [] OTHER -> "getRecord"

access_GetDoctor(r) ==
    /\ r \in DOMAIN reqs /\ r.op \in MedOps /\ r.pc = "getDoctor"
    /\ reqs' = IF UserGet(r.uid, "DOCTOR")
               THEN Swap(r, [r EXCEPT !.pc = "getPatient"])
               ELSE Swap(r, Respond(r, HTTP_404, <<>>))
    /\ UNCHANGED <<store, registry, history>>

access_GetPatient(r) ==
    /\ r \in DOMAIN reqs /\ r.op \in MedOps /\ r.pc = "getPatient"
    /\ reqs' = IF PatientGet(r.p)
               THEN Swap(r, [r EXCEPT !.pc = "getLink"])
               ELSE Swap(r, Respond(r, HTTP_404, <<>>))
    /\ UNCHANGED <<store, registry, history>>

\* PatientDoctor.get: DoesNotExist is answered 404; MultipleObjectsReturned is caught
\* by neither except clause and leaves as a 500.
access_GetLink(r) ==
    /\ r \in DOMAIN reqs /\ r.op \in MedOps /\ r.pc = "getLink"
    /\ LET got == PatientDoctorGet(r.p, r.uid)
       IN  reqs' = CASE got = "DoesNotExist" -> Swap(r, Respond(r, HTTP_404, <<>>))
                     [] got = "MultipleObjectsReturned" ->
                            Swap(r, Respond(r, HTTP_500, <<>>))
                     [] OTHER -> Swap(r, [r EXCEPT !.pc = AfterCheck(r.op)])
    /\ UNCHANGED <<store, registry, history>>

get_patient_medical_information_Filter(r) ==
    /\ r \in At("list", "filter")
    /\ reqs' = Swap(r, Respond(r, HTTP_200, <<>>))
    /\ UNCHANGED <<store, registry, history>>

create_medical_record_Create(r) ==
    /\ r \in At("create_record", "create")
    /\ records' = (record_seq :> [patient |-> r.p, doctor |-> r.uid, data |-> r.req])
                  @@ records
    /\ record_seq' = record_seq + 1
    /\ reqs' = Swap(r, Respond(r, HTTP_200, <<>>))
    /\ UNCHANGED <<patients, patient_seq, links, link_seq, registry, history>>

\* MedicalRecord.get, then update_from_dict on the fetched object and its
\* serialisation.  Nothing is written back: the handler never calls save().
update_medical_record_GetRecord(r) ==
    /\ r \in At("update_record", "getRecord")
    /\ reqs' = IF MedicalRecordGet(r.rid, r.p)
               THEN Swap(r, Respond(r, HTTP_200,
                                    UpdateFromDict(records[r.rid].data, r.req)))
               ELSE Swap(r, Respond(r, HTTP_404, <<>>))
    /\ UNCHANGED <<store, registry, history>>

delete_medical_record_GetRecord(r) ==
    /\ r \in At("delete_record", "getRecord")
    /\ reqs' = IF MedicalRecordGet(r.rid, r.p)
               THEN Swap(r, [r EXCEPT !.pc = "delete"])
               ELSE Swap(r, Respond(r, HTTP_404, <<>>))
    /\ UNCHANGED <<store, registry, history>>

delete_medical_record_Delete(r) ==
    /\ r \in At("delete_record", "delete")
    /\ records' = [i \in DOMAIN records \ {r.rid} |-> records[i]]
    /\ reqs' = Swap(r, Respond(r, HTTP_200, <<>>))
    /\ UNCHANGED <<patients, patient_seq, links, link_seq, record_seq, registry, history>>

\* The response is sent and the request is over.
Return(r) ==
    /\ r \in DOMAIN reqs /\ r.pc = "done"
    /\ reqs' = reqs (-) SetToBag({r})
    /\ UNCHANGED <<store, registry, history>>

\* ------------------------------------------------------ WebSocket endpoint
\* verify_token: the payload of a token that validates.
VerifyToken(tok) == tok.kind = "jwt"
\* Faulty variant: the lookup's None result not checked
UserGetOrNone_Unchecked(id) == TRUE
\* User.get_or_none(id=..)
UserGetOrNone(id) == id \in UserIds

\* The header is read and the token verified; the user lookup is awaited.
websocket_endpoint_Connect(c, tok) ==
    /\ sockets[c] = "idle"
    /\ IF tok = NoToken \/ ~VerifyToken(tok)
       THEN /\ sockets' = [sockets EXCEPT ![c] = "rejected"]
            /\ lookup' = lookup
       ELSE /\ sockets' = [sockets EXCEPT ![c] = "lookup"]
            /\ lookup' = [lookup EXCEPT ![c] = tok.id]
    /\ UNCHANGED <<store, user_sockets, reqs, history>>

\* The lookup returns: close, or register the socket and await accept().
websocket_endpoint_GetUser(c) ==
    /\ sockets[c] = "lookup"
    /\ IF UserGetOrNone(lookup[c])
       THEN /\ user_sockets' = (lookup[c] :> c) @@ user_sockets
            /\ sockets' = [sockets EXCEPT ![c] = "accepting"]
       ELSE /\ user_sockets' = user_sockets
            /\ sockets' = [sockets EXCEPT ![c] = "rejected"]
    /\ lookup' = [lookup EXCEPT ![c] = 0]
    /\ UNCHANGED <<store, reqs, history>>

websocket_endpoint_Accept(c) ==
    /\ sockets[c] = "accepting"
    /\ sockets' = [sockets EXCEPT ![c] = "open"]
    /\ UNCHANGED <<store, user_sockets, lookup, reqs, history>>

\* The client goes away: receive_text raises and the handler ends.  The registry
\* entry stays.
websocket_endpoint_Disconnect(c) ==
    /\ sockets[c] \in {"accepting", "open"}
    /\ sockets' = [sockets EXCEPT ![c] = "closed"]
    /\ UNCHANGED <<store, user_sockets, lookup, reqs, history>>

\* ---------------------------------------------------------- specifications
Idle == reqs = EmptyBag

PatientWork ==
    \/ \E r \in DOMAIN reqs : create_patient_Create(r)

PatientEditWork ==
    \/ \E r \in DOMAIN reqs : update_patient_Get(r)
    \/ \E r \in DOMAIN reqs : delete_patient_Get(r)
    \/ \E r \in DOMAIN reqs : delete_patient_Delete(r)

AssignWork ==
    \/ \E r \in DOMAIN reqs : assign_doctor_to_patient_GetPatient(r)
    \/ \E r \in DOMAIN reqs : assign_doctor_to_patient_Filter(r)
    \/ \E r \in DOMAIN reqs : assign_doctor_to_patient_GetDoctor(r)
    \/ \E r \in DOMAIN reqs : assign_doctor_to_patient_Create(r)
    \/ \E r \in DOMAIN reqs : unassign_doctor_from_patient_Get(r)
    \/ \E r \in DOMAIN reqs : unassign_doctor_from_patient_Delete(r)

RecordWork ==
    \/ \E r \in DOMAIN reqs : access_GetDoctor(r)
    \/ \E r \in DOMAIN reqs : access_GetPatient(r)
    \/ \E r \in DOMAIN reqs : access_GetLink(r)
    \/ \E r \in DOMAIN reqs : get_patient_medical_information_Filter(r)
    \/ \E r \in DOMAIN reqs : create_medical_record_Create(r)

RecordEditWork ==
    \/ \E r \in DOMAIN reqs : update_medical_record_GetRecord(r)
    \/ \E r \in DOMAIN reqs : delete_medical_record_GetRecord(r)
    \/ \E r \in DOMAIN reqs : delete_medical_record_Delete(r)

SocketStep ==
    \/ \E c \in Conns, tok \in Tokens : websocket_endpoint_Connect(c, tok)
    \/ \E c \in Conns : websocket_endpoint_GetUser(c)
    \/ \E c \in Conns : websocket_endpoint_Accept(c)
    \/ \E c \in Conns : websocket_endpoint_Disconnect(c)

\* Spec: every handler of the patients router, one request served at a time, before
\* any client has opened a socket.
Next ==
    \/ \E req \in NewPatients : Idle /\ create_patient_Call(req)
    \/ \E p \in PatientIds, req \in PatientUpdates : Idle /\ update_patient_Call(p, req)
    \/ \E p \in PatientIds : Idle /\ delete_patient_Call(p)
    \/ \E p \in PatientIds, d \in UserIds : Idle /\ assign_doctor_to_patient_Call(p, d)
    \/ \E p \in PatientIds, d \in UserIds : Idle /\ unassign_doctor_from_patient_Call(p, d)
    \/ \E u \in UserIds, p \in PatientIds :
            Idle /\ get_patient_medical_information_Call(u, p)
    \/ \E u \in UserIds, p \in PatientIds, req \in NewRecords :
            Idle /\ create_medical_record_Call(u, p, req)
    \/ \E u \in UserIds, p \in PatientIds, rid \in RecordIds, req \in RecordUpdates :
            Idle /\ update_medical_record_Call(u, p, rid, req)
    \/ \E u \in UserIds, p \in PatientIds, rid \in RecordIds :
            Idle /\ delete_medical_record_Call(u, p, rid)
    \/ PatientWork
    \/ PatientEditWork
    \/ AssignWork
    \/ RecordWork
    \/ RecordEditWork
    \/ \E r \in DOMAIN reqs : Return(r)

Spec == Init /\ [][Next]_vars

\* SpecRace: the assignment and medical-record handlers interleaved at their awaits,
\* up to MaxInFlight requests at once.
NextRace ==
    \/ \E req \in NewPatients : create_patient_Call(req)
    \/ \E p \in PatientIds, d \in UserIds : assign_doctor_to_patient_Call(p, d)
    \/ \E p \in PatientIds, d \in UserIds : unassign_doctor_from_patient_Call(p, d)
    \/ \E u \in UserIds, p \in PatientIds : get_patient_medical_information_Call(u, p)
    \/ \E u \in UserIds, p \in PatientIds, req \in NewRecords :
            create_medical_record_Call(u, p, req)
    \/ \E u \in UserIds, p \in PatientIds, rid \in RecordIds, req \in RecordUpdates :
            update_medical_record_Call(u, p, rid, req)
    \/ \E u \in UserIds, p \in PatientIds, rid \in RecordIds :
            delete_medical_record_Call(u, p, rid)
    \/ PatientWork
    \/ AssignWork
    \/ RecordWork
    \/ RecordEditWork
    \/ \E r \in DOMAIN reqs : Return(r)

SpecRace == Init /\ [][NextRace]_vars

\* SpecNotify: clients opening and dropping sockets while assignments and the
\* listing and creation of medical records are served one at a time.
NextNotify ==
    \/ \E req \in NewPatients : Idle /\ create_patient_Call(req)
    \/ \E p \in PatientIds, d \in UserIds : Idle /\ assign_doctor_to_patient_Call(p, d)
    \/ \E p \in PatientIds, d \in UserIds : Idle /\ unassign_doctor_from_patient_Call(p, d)
    \/ \E u \in UserIds, p \in PatientIds :
            Idle /\ get_patient_medical_information_Call(u, p)
    \/ \E u \in UserIds, p \in PatientIds, req \in NewRecords :
            Idle /\ create_medical_record_Call(u, p, req)
    \/ PatientWork
    \/ AssignWork
    \/ RecordWork
    \/ SocketStep
    \/ \E r \in DOMAIN reqs : Return(r)

SpecNotify == Init /\ [][NextNotify]_vars

\* ------------------------------------------------------------------ claims
\* One step of request r, which leaves it as r2.
StepOf(r, r2) == r.pc # "done" /\ r2 # r /\ reqs' = Swap(r, r2)
Answers(r, r2) == StepOf(r, r2) /\ r2.pc = "done"

Linked(rows, p, d) == \E l \in rows : l.patient = p /\ l.doctor = d

\* C1: an assign whose duplicate check finds a PatientDoctor row for the pair is
\* answered 400, and the set of PatientDoctor rows stays as it was.
C1_DuplicateAssignIsConflict ==
    [][\A r \in DOMAIN reqs, r2 \in DOMAIN reqs' :
        (StepOf(r, r2) /\ r.op = "assign" /\ r.pc = "filter" /\ Linked(links, r.p, r.uid))
            => (r2.pc = "done" /\ r2.status = HTTP_400 /\ links' = links)]_vars

\* C2: while no PatientDoctor row links a doctor to a patient, a medical-record
\* request (list, create, update, delete) of that doctor on that patient does not get
\* past its access check: its steps leave the MedicalRecord rows as they are, and
\* the answer, when it comes, is 404.
C2_UnassignedDoctorGetsNotFound ==
    [][\A r \in DOMAIN reqs, r2 \in DOMAIN reqs' :
        (/\ StepOf(r, r2)
         /\ r.op \in MedOps
         /\ r.pc \in {"getDoctor", "getPatient", "getLink"}
         /\ Role[r.uid] = "DOCTOR"
         /\ ~Linked(links, r.p, r.uid))
            => /\ records' = records
               /\ r2.pc \in {"getPatient", "getLink", "done"}
               /\ r2.pc = "done" => r2.status = HTTP_404]_vars

\* C2 witness: a doctor assigned to one patient has been refused the creation and
\* the listing of records of another, existing patient.
C2_Witness ==
    \E r1, r2 \in DOMAIN reqs :
        /\ r1.op = "create_record" /\ r2.op = "list"
        /\ r1.pc = "done" /\ r2.pc = "done"
        /\ r1.status = HTTP_404 /\ r2.status = HTTP_404
        /\ r1.uid = r2.uid /\ r1.p = r2.p
        /\ Role[r1.uid] = "DOCTOR"
        /\ r1.p \in DOMAIN patients
        /\ ~Linked(links, r1.p, r1.uid)
        /\ \E l \in links : l.doctor = r1.uid /\ l.patient # r1.p

\* C3: once an unassign of (p, d) has been answered with success and no assign of
\* (p, d) has been answered with success since, a medical-record request of d on p
\* that starts then is answered 404.
C3_RevokedDoctorIsRefused ==
    [][\A r \in DOMAIN reqs, r2 \in DOMAIN reqs' :
        (/\ Answers(r, r2)
         /\ r.op \in MedOps
         /\ r.since >= 0
         /\ r.since = granted[<<r.p, r.uid>>])
            => r2.status = HTTP_404]_vars

\* C4: an assign answered with success has pushed exactly one frame, to the socket
\* registered for the doctor, and none to any other; with no socket registered for
\* the doctor the row is created, the answer is success and no frame is pushed.
C4_NotifiesRegisteredDoctorOnce ==
    [][\A r \in DOMAIN reqs, r2 \in DOMAIN reqs' :
        (Answers(r, r2) /\ r.op = "assign")
            => /\ (r2.status = HTTP_200 /\ r.uid \in DOMAIN user_sockets)
                    => /\ Len(r2.sent) = 1
                       /\ r2.sent[1].conn = user_sockets[r.uid]
               /\ (r.pc = "create" /\ r.uid \notin DOMAIN user_sockets)
                    => (r2.status = HTTP_200 /\ r2.sent = <<>>)]_vars

\* C4 witness: an assign has been answered with success and one frame went to the
\* doctor's socket while another user's socket is open too.
C4_Witness ==
    \E r \in DOMAIN reqs, c \in Conns :
        /\ r.op = "assign" /\ r.pc = "done" /\ r.status = HTTP_200
        /\ Len(r.sent) = 1
        /\ r.uid \in DOMAIN user_sockets
        /\ r.sent[1].conn = user_sockets[r.uid]
        /\ c # r.sent[1].conn
        /\ sockets[c] = "open"
        /\ \E u \in DOMAIN user_sockets : u # r.uid /\ user_sockets[u] = c

\* C5: the step in which a request is answered with a failure status leaves the
\* Patient, PatientDoctor and MedicalRecord rows as they were.
C5_FailureLeavesStoreUnchanged ==
    [][\A r \in DOMAIN reqs, r2 \in DOMAIN reqs' :
        (Answers(r, r2) /\ r2.status # HTTP_200) => store' = store]_vars

\* C6: no two PatientDoctor rows link the same patient and doctor.
C6_PairIsUnique ==
    \A l1, l2 \in links :
        (l1.patient = l2.patient /\ l1.doctor = l2.doctor) => l1 = l2

\* The patient of the MedicalRecord row a step creates or deletes.
TouchedPatients ==
    {records'[i].patient : i \in DOMAIN records' \ DOMAIN records}
        \cup {records[i].patient : i \in DOMAIN records \ DOMAIN records'}
        \cup {records[i].patient :
                i \in {j \in DOMAIN records \cap DOMAIN records' : records'[j] # records[j]}}

\* C7: in the step in which a medical-record create, update or delete changes the
\* MedicalRecord rows, a PatientDoctor row links the acting doctor and the patient of
\* the record.
C7_WriteOnlyWhileAssigned ==
    [][\A r \in DOMAIN reqs, r2 \in DOMAIN reqs' :
        (/\ StepOf(r, r2)
         /\ r.op \in {"create_record", "update_record", "delete_record"}
         /\ records' # records)
            => \A q \in TouchedPatients : Linked(links', q, r.uid)]_vars

\* C8: an unassign ends in one of two ways: 404 with the rows unchanged, which is what
\* it does when its lookup finds no PatientDoctor row for the pair, or the success
\* ack, after which no PatientDoctor row for the pair exists.
C8_UnassignNotFoundOrGone ==
    [][\A r \in DOMAIN reqs, r2 \in DOMAIN reqs' :
        (StepOf(r, r2) /\ r.op = "unassign")
            => /\ r2.pc = "done"
                    => \/ r2.status = HTTP_404 /\ store' = store
                                               /\ ~Linked(links, r.p, r.uid)
                       \/ r2.status = HTTP_200 /\ ~Linked(links', r.p, r.uid)
               /\ (r.pc = "get" /\ ~Linked(links, r.p, r.uid))
                    => (r2.pc = "done" /\ r2.status = HTTP_404)]_vars

\* C9: a connection attempt with no token, with a token that does not verify, or
\* with a token naming no existing user is closed and the registry stays as it was;
\* the registry changes only by registering, under the id of an existing user, the
\* socket whose verified token names that user; every key of the registry is the id
\* of an existing user.
C9_OnlyValidatedUsersRegistered ==
    /\ [](DOMAIN user_sockets \subseteq UserIds)
    /\ [][/\ \A c \in Conns, tok \in Tokens :
                (websocket_endpoint_Connect(c, tok)
                    /\ (tok.kind # "jwt" \/ tok.id \notin UserIds))
                    => /\ user_sockets' = user_sockets
                       /\ sockets'[c] \in {"rejected", "lookup"}
                       /\ tok.kind # "jwt" => sockets'[c] = "rejected"
          /\ \A c \in Conns :
                (sockets[c] = "lookup" /\ sockets'[c] # "lookup"
                    /\ lookup[c] \notin UserIds)
                    => (sockets'[c] = "rejected" /\ user_sockets' = user_sockets)
          /\ user_sockets' # user_sockets
                => \E c \in Conns :
                    /\ sockets[c] = "lookup"
                    /\ lookup[c] \in UserIds
                    /\ user_sockets' = (lookup[c] :> c) @@ user_sockets]_vars

\* C9 witness: one attempt was rejected and is in no registry entry, while the
\* socket of an existing user is registered and open.
C9_Witness ==
    \E c1, c2 \in Conns :
        /\ c1 # c2
        /\ sockets[c1] = "rejected"
        /\ \A u \in DOMAIN user_sockets : user_sockets[u] # c1
        /\ sockets[c2] = "open"
        /\ \E u \in DOMAIN user_sockets : user_sockets[u] = c2

\* The entity an update request asks for: the requested value in each field it
\* sets, the prior value in every other field.
Requested(old, req) ==
    [k \in DOMAIN old |-> IF k \in DOMAIN req THEN req[k] ELSE old[k]]

\* C10: after an update of a Patient or of a MedicalRecord answered with success, the
\* stored row holds the requested value in every field the request set and its prior
\* value in every other field.
C10_UpdateIsStored ==
    [][\A r \in DOMAIN reqs, r2 \in DOMAIN reqs' :
        (Answers(r, r2) /\ r2.status = HTTP_200)
            => /\ r.op = "update_patient"
                    => (r.p \in DOMAIN patients'
                        /\ patients'[r.p] = Requested(patients[r.p], r.req))
               /\ r.op = "update_record"
                    => (r.rid \in DOMAIN records'
                        /\ records'[r.rid].data = Requested(records[r.rid].data, r.req))]_vars

\* A request to update or delete a record, naming a record that belongs to a patient
\* other than the one in its path.
NamesForeignRecord(r) ==
    /\ r.op \in {"update_record", "delete_record"}
    /\ r.rid \in DOMAIN records
    /\ records[r.rid].patient # r.p

\* C11: no step of update_medical_record or delete_medical_record changes or removes
\* a record of a patient other than the one named in the path; and when the caller
\* is a doctor with a PatientDoctor row for the path's patient and the record named
\* belongs to another patient, the request is answered 404.
C11_RecordScopedToPathPatient ==
    [][\A r \in DOMAIN reqs, r2 \in DOMAIN reqs' :
        (StepOf(r, r2) /\ r.op \in {"update_record", "delete_record"})
            => /\ \A i \in DOMAIN records :
                    records[i].patient # r.p
                        => (i \in DOMAIN records' /\ records'[i] = records[i])
               /\ (/\ r2.pc = "done"
                   /\ NamesForeignRecord(r)
                   /\ UserGet(r.uid, "DOCTOR")
                   /\ Linked(links, r.p, r.uid))
                    => r2.status = HTTP_404]_vars

\* C11 witness: a doctor holding a PatientDoctor row for one patient has named that
\* patient together with a record of another patient, and was answered 404 with the
\* record still stored.
C11_Witness ==
    \E r \in DOMAIN reqs :
        /\ r.pc = "done"
        /\ r.status = HTTP_404
        /\ NamesForeignRecord(r)
        /\ Linked(links, r.p, r.uid)

\* C11 with the store the serial runs keep: the same statement, for the steps taken
\* while the PatientDoctor rows hold at most one row per pair.
C11_ScopedWhilePairsUnique ==
    [][\A r \in DOMAIN reqs, r2 \in DOMAIN reqs' :
        (/\ StepOf(r, r2)
         /\ r.op \in {"update_record", "delete_record"}
         /\ C6_PairIsUnique)
            => /\ \A i \in DOMAIN records :
                    records[i].patient # r.p
                        => (i \in DOMAIN records' /\ records'[i] = records[i])
               /\ (/\ r2.pc = "done"
                   /\ NamesForeignRecord(r)
                   /\ UserGet(r.uid, "DOCTOR")
                   /\ Linked(links, r.p, r.uid))
                    => r2.status = HTTP_404]_vars

====
